---- MODULE Spec2Model ----
(***************************************************************************)
(* Model of the accessibility snapshot builder of                          *)
(* libs/computer-server/computer_server/handlers/macos.py:                 *)
(* UIElement (tree construction, geometry, hashing) and                    *)
(* MacOSAccessibilityHandler.get_accessibility_tree.                       *)
(*                                                                         *)
(* The macOS accessibility API is the environment: a finite set of         *)
(* elements with attributes that the windowing system may change between   *)
(* calls.  Coordinates are CGFloat values; the model keeps them in         *)
(* half-points (the integer v stands for v/2), so that int() truncation    *)
(* and the ".0f" rounding of the source are not the identity.              *)
(*                                                                         *)
(* A Python value that may be None is a sequence: <<>> is None.            *)
(* A Python str is a sequence of symbols.  A symbol is a literal piece of  *)
(* text, or stands for a 32-character md5 hexdigest of a given preimage    *)
(* (the digest is modelled as collision-free), or stands for such a        *)
(* hexdigest with a separator interleaved by str.join.  The hexadecimal    *)
(* digits of a digest are not computed, so which of two digests sorts      *)
(* first is not known from their preimages: md5_rank holds, in ascending   *)
(* order, the digests that calls have sorted so far, and a call that       *)
(* sorts further digests gives them any places among those.                *)
(*                                                                         *)
(* Every attribute is read by a call of its own, so the interface may      *)
(* change while a tree is being built: a call reads from a World, the      *)
(* interface before and after a change and the read at which it changes.   *)
(***************************************************************************)
EXTENDS Integers, Sequences, FiniteSets

\* ------------------------------------------------------------------ bounds
NumElems == 5
MaxEdits == 1
MaxDepthArg == 2
RecursionLimit == 6

Elems == 1..NumElems
None == <<>>

\* ------------------------------------------------- input domains (half-points)
Roles == {"AXWindow", "AXButton"}
PosVals == {<<2, 2>>, <<9, 4>>, <<10, 2>>, <<14, 2>>, <<-4, 2>>}
SizeVals == {<<8, 6>>, <<4, 2>>}
AppPids == {1, 2}

VARIABLES
    ax_role,        \* kAXRoleAttribute of each element (None when the API has none)
    ax_enabled,     \* kAXEnabledAttribute
    ax_position,    \* kAXPositionAttribute as a CGPoint, absolute
    ax_size,        \* kAXSizeAttribute as a CGSize
    ax_value,       \* kAXValueAttribute: none, a scalar, or another element
    ax_parent,      \* the element whose kAXChildrenAttribute lists this one (0: none)
    ax_reversed,    \* whether an element reports its children in descending order
    ax_raises,      \* whether the API raises when this element is queried
    ax_listed,      \* whether kAXChildrenAttribute of the element has a value
    ax_visible,     \* whether the element is among its parent's kAXVisibleChildrenAttribute
    md5_rank,       \* the hexdigests sorted so far, in ascending order
    running,        \* the running regular applications, in NSWorkspace order
    frontmost,      \* the active application (0: none)
    edits,          \* number of changes the environment has made
    tree,           \* the outcome of the last direct UIElement(...) constructor call
    previous,       \* the tree a diffing client kept from the call before
    result          \* the last value returned by get_accessibility_tree

ax == <<ax_role, ax_enabled, ax_position, ax_size, ax_value, ax_parent,
        ax_reversed, ax_raises, ax_listed, ax_visible>>
apps == <<running, frontmost>>
vars == <<ax_role, ax_enabled, ax_position, ax_size, ax_value, ax_parent,
          ax_reversed, ax_raises, ax_listed, ax_visible, md5_rank,
          running, frontmost, edits, tree, previous, result>>

\* The interface as it is now: what the accessor calls read.
Env == [role |-> ax_role, enabled |-> ax_enabled, position |-> ax_position,
        size |-> ax_size, value |-> ax_value, parent |-> ax_parent,
        reversed |-> ax_reversed, raises |-> ax_raises, listed |-> ax_listed,
        visible |-> ax_visible, running |-> running, frontmost |-> frontmost]

\* ---------------------------------------------------------------- strings
Max(a, b) == IF a >= b THEN a ELSE b
Min(a, b) == IF a <= b THEN a ELSE b

Lit(ch) == [k |-> "c", c |-> ch, a |-> <<>>, b |-> <<>>]

RECURSIVE Digits(_)
Digits(n) ==
    IF n < 10 THEN <<Lit(<<"0","1","2","3","4","5","6","7","8","9">>[n + 1])>>
    ELSE Digits(n \div 10) \o Digits(n % 10)

\* int(v) for the float v/2: truncation toward zero.
PyInt(v) == IF v >= 0 THEN v \div 2 ELSE -((-v) \div 2)

\* round-half-even of v/2, as the ".0f" format does.
RoundHalfEven(v) ==
    IF v % 2 = 0 THEN v \div 2
    ELSE IF (v \div 2) % 2 = 0 THEN v \div 2 ELSE (v \div 2) + 1

\* f"{x:.0f}": the sign is the sign of the float, so -0.5 gives "-0".
Format0f(v) ==
    LET r == RoundHalfEven(v)
        m == IF r < 0 THEN -r ELSE r
    IN  (IF v < 0 THEN <<Lit("-")>> ELSE <<>>) \o Digits(m)

\* str(bool)
StrBool(b) == IF b THEN <<Lit("True")>> ELSE <<Lit("False")>>

RECURSIVE Concat(_)
Concat(strs) == IF strs = <<>> THEN <<>> ELSE Head(strs) \o Concat(Tail(strs))

\* The order of str on the strings that the source sorts.  Two hexdigests
\* compare by their hexadecimal digits, which the model does not have: they
\* compare by their places in rank, the digests in ascending order.  A
\* digest without a place (0) is compared only in calls that no step takes.
Alphabet == <<"-", "0", "1", "2", "3", "4", "5", "6", "7", "8", "9", ";",
              "AXButton", "AXWindow", "False", "No role", "True">>
CharRank(ch) == IF \E i \in DOMAIN Alphabet : Alphabet[i] = ch
                THEN CHOOSE i \in DOMAIN Alphabet : Alphabet[i] = ch
                ELSE 0
KindRank(k) == IF k = "c" THEN 0 ELSE IF k = "md5" THEN 1 ELSE 2
Place(rank, digest) ==
    IF \E i \in DOMAIN rank : rank[i] = digest
    THEN CHOOSE i \in DOMAIN rank : rank[i] = digest
    ELSE 0

RECURSIVE StrLess(_, _, _)
SymLess(s, t, rank) ==
    IF s.k # t.k THEN KindRank(s.k) < KindRank(t.k)
    ELSE IF s.c # t.c THEN CharRank(s.c) < CharRank(t.c)
    ELSE IF s.k = "md5" THEN Place(rank, <<s>>) < Place(rank, <<t>>)
    ELSE IF s.a # t.a THEN StrLess(s.a, t.a, rank)
    ELSE StrLess(s.b, t.b, rank)
StrLess(s, t, rank) ==
    IF t = <<>> THEN FALSE
    ELSE IF s = <<>> THEN TRUE
    ELSE IF Head(s) # Head(t) THEN SymLess(Head(s), Head(t), rank)
    ELSE StrLess(Tail(s), Tail(t), rank)

RECURSIVE Insert(_, _, _)
Insert(sorted, s, rank) ==
    IF sorted = <<>> THEN <<s>>
    ELSE IF StrLess(s, Head(sorted), rank) THEN <<s>> \o sorted
    ELSE <<Head(sorted)>> \o Insert(Tail(sorted), s, rank)

\* list.sort() on a list of str
RECURSIVE Sort(_, _)
Sort(strs, rank) ==
    IF strs = <<>> THEN <<>> ELSE Insert(Sort(Tail(strs), rank), Head(strs), rank)

\* The strings that sorting strs compares by their digits: its non-empty
\* members, when two of them differ.
Compared(strs) ==
    LET members == {strs[i] : i \in DOMAIN strs} \ {<<>>}
    IN  IF Cardinality(members) >= 2 THEN members ELSE {}

\* The orders that give the digests of D places among those of rank.
RECURSIVE Insertions(_, _)
Insertions(rank, D) ==
    IF D = {} THEN {rank}
    ELSE LET d == CHOOSE x \in D : TRUE
         IN  {SubSeq(r, 1, i) \o <<d>> \o SubSeq(r, i + 1, Len(r)) :
                 r \in Insertions(rank, D \ {d}), i \in 0..(Len(rank) + Cardinality(D) - 1)}

\* sep.join(digest) for a hexdigest (or ""): the separator goes between the
\* characters of the digest, so "" joins to "" and an empty separator gives
\* the digest back.
Join(sep, digest) ==
    IF digest = <<>> THEN <<>>
    ELSE IF sep = <<>> THEN digest
    ELSE <<[k |-> "join", c |-> "", a |-> digest, b |-> sep]>>

\* UIElement.hash_from_string
hash_from_string(string) ==
    IF string = <<>> THEN <<>>
    ELSE <<[k |-> "md5", c |-> "", a |-> string, b |-> <<>>]>>

\* ------------------------------------------------------- attribute accessor
\* Attributes the environment never changes in this model.
AXTitle(e) ==
    IF e = 2 THEN None
    ELSE <<<<Lit("item"), Lit(" ")>> \o Digits(e)>>
AXDescription(e) == IF e = 3 THEN None ELSE <<<<Lit("description")>>>>
AXRoleDescription(e) == <<<<Lit("role"), Lit(" "), Lit("description")>>>>

\* The elements below e in the interface env, in the order the API reports.
RECURSIVE Ascending(_, _)
Ascending(S, from) ==
    IF from > NumElems THEN <<>>
    ELSE (IF from \in S THEN <<from>> ELSE <<>>) \o Ascending(S, from + 1)
Reverse(seq) == [i \in 1..Len(seq) |-> seq[Len(seq) + 1 - i]]
ChildElems(env, e) ==
    LET asc == Ascending({c \in Elems : env.parent[c] = e}, 1)
    IN  IF env.reversed[e] THEN Reverse(asc) ELSE asc

\* The value of kAXChildrenAttribute: None when the API has no value.
AXChildren(env, e) ==
    IF ~env.listed[e] \/ ChildElems(env, e) = <<>> THEN None
    ELSE <<ChildElems(env, e)>>
\* The value of kAXVisibleChildrenAttribute
AXVisibleChildren(env, e) ==
    LET shown == SelectSeq(ChildElems(env, e), LAMBDA c : env.visible[c])
    IN  IF shown = <<>> THEN None ELSE <<shown>>

\* What one accessor call for an attribute of e gives in the interface env:
\* the call raises, or returns the value (None when there is none).
Outcome(env, e, attribute) ==
    IF env.raises[e] THEN [raised |-> TRUE, value |-> None]
    ELSE [raised |-> FALSE,
          value |-> CASE attribute = "AXRole" -> env.role[e]
                      [] attribute = "AXTitle" -> AXTitle(e)
                      [] attribute = "AXEnabled" -> env.enabled[e]
                      [] attribute = "AXPosition" -> env.position[e]
                      [] attribute = "AXSize" -> env.size[e]
                      [] attribute = "AXDescription" -> AXDescription(e)
                      [] attribute = "AXRoleDescription" -> AXRoleDescription(e)
                      [] attribute = "AXValue" -> <<env.value[e]>>
                      [] attribute = "AXChildren" -> AXChildren(env, e)
                      [] attribute = "AXVisibleChildren" -> AXVisibleChildren(env, e)]

\* The interface during a call: it is w.pre until the call made w.at[1]
\* reads that the change affects, and w.post from then on (w.at = None: it
\* stays w.pre).  clock counts the reads made so far whose outcome the change
\* affects; reads it does not affect need no counting.  w.rank is the order
\* of the hexdigests.
Stable(env, rank) == [pre |-> env, post |-> env, at |-> None, rank |-> rank]
Read(w, clock, before, after) ==
    [out |-> IF w.at = None \/ clock < w.at[1] THEN before ELSE after,
     clock |-> IF before = after THEN clock ELSE clock + 1]

\* Body(v) for the value v of an expression that is evaluated once.
With(value, Body(_)) == CHOOSE r \in {Body(v) : v \in {value}} : TRUE

\* element_attribute(element, attribute)
element_attribute(w, clock, element, attribute) ==
    Read(w, clock, Outcome(w.pre, element, attribute), Outcome(w.post, element, attribute))

\* Consecutive element_attribute calls for one element; the first that
\* raises ends them.
RECURSIVE ReadAttributes(_, _, _, _)
ReadAttributes(w, clock, element, attributes) ==
    IF attributes = <<>> THEN [raised |-> FALSE, clock |-> clock, values |-> <<>>]
    ELSE With(element_attribute(w, clock, element, Head(attributes)), LAMBDA first :
            IF first.out.raised THEN [raised |-> TRUE, clock |-> first.clock, values |-> <<>>]
            ELSE With(ReadAttributes(w, first.clock, element, Tail(attributes)), LAMBDA rest :
                    [raised |-> rest.raised, clock |-> rest.clock,
                     values |-> <<first.out.value>> \o rest.values]))

\* str.replace(" ", "_")
ReplaceSpaces(str) == [i \in 1..Len(str) |-> IF str[i] = Lit(" ") THEN Lit("_") ELSE str[i]]

\* ------------------------------------------------------------- UIElement
Raised == [raised |-> TRUE]
NoValue == [kind |-> "none"]

\* UIElement._set_bboxes: the pair <<bbox, visible_bbox>>
BBoxOf(position, size) ==
    <<PyInt(position[1]), PyInt(position[2]),
      PyInt(position[1] + size[1]), PyInt(position[2] + size[2])>>
\* Mutant: the intersection is not taken; a node that overlaps keeps its bbox.
VisibleBBoxOf_unclipped(bbox, parents_visible_bbox) ==
    IF parents_visible_bbox # None
    THEN IF \/ bbox[1] > parents_visible_bbox[3]
            \/ bbox[2] > parents_visible_bbox[4]
            \/ bbox[3] < parents_visible_bbox[1]
            \/ bbox[4] < parents_visible_bbox[2]
         THEN None
         ELSE bbox
    ELSE bbox
VisibleBBoxOf(bbox, parents_visible_bbox) ==
    IF parents_visible_bbox # None
    THEN IF \/ bbox[1] > parents_visible_bbox[3]
            \/ bbox[2] > parents_visible_bbox[4]
            \/ bbox[3] < parents_visible_bbox[1]
            \/ bbox[4] < parents_visible_bbox[2]
         THEN None
         ELSE <<Max(bbox[1], parents_visible_bbox[1]),
                Max(bbox[2], parents_visible_bbox[2]),
                Min(bbox[3], parents_visible_bbox[3]),
                Min(bbox[4], parents_visible_bbox[4])>>
    ELSE bbox
\* Mutant: a node without position or size gets an empty box instead of none.
set_bboxes_empty_box(position, size, parents_visible_bbox) ==
    IF position = None \/ size = None THEN <<<<0, 0, 0, 0>>, <<0, 0, 0, 0>>>>
    ELSE <<BBoxOf(position, size), VisibleBBoxOf(BBoxOf(position, size), parents_visible_bbox)>>
set_bboxes(position, size, parents_visible_bbox) ==
    IF position = None \/ size = None THEN <<None, None>>
    ELSE <<BBoxOf(position, size), VisibleBBoxOf(BBoxOf(position, size), parents_visible_bbox)>>

\* Mutant: the offset is subtracted as it is.
AdjustPosition_unclamped(start_position, offset_x, offset_y) ==
    IF start_position = None THEN None
    ELSE <<start_position[1] - offset_x, start_position[2] - offset_y>>
\* The adjusted position: absolute position minus max(0, offset), componentwise.
AdjustPosition(start_position, offset_x, offset_y) ==
    IF start_position = None THEN None
    ELSE <<start_position[1] - Max(0, offset_x), start_position[2] - Max(0, offset_y)>>

\* The offset a node works with: its own position when it is a window.
WindowOffset(role, start_position, offset_x, offset_y) ==
    IF role = "AXWindow" /\ start_position # None
    THEN <<start_position[1], start_position[2]>>
    ELSE <<offset_x, offset_y>>

\* Mutant: the name goes into the hashed string as well.
component_hash_with_name(self) ==
    IF self.position = None \/ self.size = None THEN <<>>
    ELSE hash_from_string(Format0f(self.position[1]) \o <<Lit(";")>>
                            \o Format0f(self.position[2])
                            \o Format0f(self.size[1]) \o <<Lit(";")>> \o Format0f(self.size[2])
                            \o StrBool(self.enabled) \o <<Lit(self.role)>>
                            \o (IF self.name = None THEN <<>> ELSE self.name[1]))
\* UIElement.component_hash
component_hash(self) ==
    IF self.position = None \/ self.size = None THEN <<>>
    ELSE LET position_string == Format0f(self.position[1]) \o <<Lit(";")>>
                                   \o Format0f(self.position[2])
             size_string == Format0f(self.size[1]) \o <<Lit(";")>> \o Format0f(self.size[2])
             enabled_string == StrBool(self.enabled)
             role_string == <<Lit(self.role)>>
         IN  hash_from_string(position_string \o size_string \o enabled_string \o role_string)

\* The two halves of UIElement.children_content_hash.
content_hash(children, rank) ==
    hash_from_string(Concat(Sort([i \in 1..Len(children) |-> children[i].content_identifier],
                                 rank)))
\* Mutant: the identifiers do not go into it, only their number.
content_structure_hash_by_count(children) ==
    hash_from_string(Digits(Len(children)))
content_structure_hash(children) ==
    hash_from_string(Concat([i \in 1..Len(children) |-> children[i].identifier]))

\* UIElement.children_content_hash
children_content_hash(children, rank) ==
    IF Len(children) = 0 THEN <<>>
    ELSE hash_from_string(Join(content_hash(children, rank), content_structure_hash(children)))

\* UIElement.calculate_hashes
calculate_hashes(self, rank) ==
    [self EXCEPT !.identifier = component_hash(self),
                 !.content_identifier = children_content_hash(self.children, rank)]

\* The depth limit handed to a child: max_depth - 1, or None.
ChildDepth(max_depth) == IF max_depth = None THEN None ELSE <<max_depth[1] - 1>>
\* Mutant: the depth test is off by one.
Expands_at_zero(max_depth) == max_depth = None \/ max_depth[1] >= 0
\* self.max_depth is None or self.max_depth > 0
Expands(max_depth) == max_depth = None \/ max_depth[1] > 0

RECURSIVE UIElement(_, _, _, _, _, _, _, _)
RECURSIVE BuildEach(_, _, _, _, _, _, _, _)

\* The loop of UIElement._get_children over found_children; an exception raised
\* by a child's constructor leaves the loop and the caller.
BuildEach(w, clock, found, offset_x, offset_y, max_depth, visible_bbox, fuel) ==
    IF found = <<>> THEN [raised |-> FALSE, clock |-> clock, list |-> <<>>]
    ELSE With(UIElement(w, clock, Head(found), offset_x, offset_y,
                        ChildDepth(max_depth), visible_bbox, fuel - 1), LAMBDA child :
            IF child.node.raised THEN [raised |-> TRUE, clock |-> child.clock, list |-> <<>>]
            ELSE With(BuildEach(w, child.clock, Tail(found), offset_x, offset_y,
                                max_depth, visible_bbox, fuel), LAMBDA rest :
                    [raised |-> rest.raised, clock |-> rest.clock,
                     list |-> <<child.node>> \o rest.list]))

\* UIElement._get_children
get_children(w, clock, element, offset_x, offset_y, max_depth, visible_bbox, fuel) ==
    With(ReadAttributes(w, clock, element, <<"AXChildren", "AXVisibleChildren">>),
         LAMBDA read :
    LET children == read.values[1]
        visible_children == read.values[2]
        found_children == IF children # None THEN children[1]
                          ELSE IF visible_children # None THEN visible_children[1]
                          ELSE <<>>
    IN  IF read.raised THEN [raised |-> TRUE, clock |-> read.clock, list |-> <<>>]
        ELSE IF Expands(max_depth)
        THEN BuildEach(w, read.clock, found_children, offset_x, offset_y,
                       max_depth, visible_bbox, fuel)
        ELSE [raised |-> FALSE, clock |-> read.clock, list |-> <<>>])

\* The value field: a nested UIElement when the attribute is an element,
\* built with the default max_depth and no parent bbox.
BuildValue(w, clock, attribute_value, offset_x, offset_y, fuel) ==
    IF attribute_value.kind = "element"
    THEN With(UIElement(w, clock, attribute_value.ref, offset_x, offset_y,
                        None, None, fuel - 1), LAMBDA v :
            [raised |-> v.node.raised, clock |-> v.clock,
             value |-> [kind |-> "element", node |-> v.node]])
    ELSE [raised |-> FALSE, clock |-> clock, value |-> [kind |-> attribute_value.kind]]

\* UIElement.__init__: the node, or Raised, and the clock after the call.
\* fuel is the number of nested constructor calls the interpreter still
\* allows.
UIElement(w, clock, element, offset_x, offset_y, max_depth, parents_visible_bbox, fuel) ==
    IF fuel <= 0 THEN [clock |-> clock, node |-> Raised]
    ELSE
    With(ReadAttributes(w, clock, element,
                        <<"AXRole", "AXTitle", "AXEnabled", "AXPosition", "AXSize">>),
         LAMBDA own :
    LET role == IF own.values[1] = None THEN "No role" ELSE own.values[1][1]
        name == IF own.values[2] = None THEN None ELSE <<ReplaceSpaces(own.values[2][1])>>
        enabled == IF own.values[3] = None THEN FALSE ELSE own.values[3][1]
        start_position == own.values[4]
        offset == WindowOffset(role, start_position, offset_x, offset_y)
        position == AdjustPosition(start_position, offset[1], offset[2])
        size == own.values[5]
        boxes == set_bboxes(position, size, parents_visible_bbox)
        base == [raised |-> FALSE, ax_element |-> element, role |-> role, name |-> name,
                 enabled |-> enabled, absolute_position |-> start_position,
                 position |-> position, size |-> size,
                 bbox |-> boxes[1], visible_bbox |-> boxes[2], max_depth |-> max_depth,
                 center |-> None, description |-> <<<<>>>>, role_description |-> <<<<>>>>,
                 value |-> NoValue, children |-> <<>>,
                 identifier |-> <<>>, content_identifier |-> <<>>]
    IN  IF own.raised THEN [clock |-> own.clock, node |-> Raised]
        ELSE IF start_position = None \/ size = None THEN [clock |-> own.clock, node |-> base]
        ELSE
        With(ReadAttributes(w, own.clock, element,
                            <<"AXDescription", "AXRoleDescription", "AXValue">>),
             LAMBDA more :
        IF more.raised THEN [clock |-> more.clock, node |-> Raised]
        ELSE
        With(BuildValue(w, more.clock, more.values[3][1], offset[1], offset[2], fuel),
             LAMBDA val :
        IF val.raised THEN [clock |-> val.clock, node |-> Raised]
        ELSE
        With(IF Expands(max_depth)
             THEN get_children(w, val.clock, element, offset[1], offset[2],
                               max_depth, boxes[2], fuel)
             ELSE [raised |-> FALSE, clock |-> val.clock, list |-> <<>>],
             LAMBDA kids :
        IF kids.raised THEN [clock |-> kids.clock, node |-> Raised]
        ELSE [clock |-> kids.clock,
              node |-> calculate_hashes(
                     [base EXCEPT
                      \* in quarter-points: position + offset + size / 2
                      !.center = <<2 * (position[1] + offset[1]) + size[1],
                                   2 * (position[2] + offset[2]) + size[2]>>,
                      !.description = more.values[1],
                      !.role_description = more.values[2],
                      !.value = val.value,
                      !.children = kids.list], w.rank)]))))

\* The digests that the sorts of a built tree compare and that have no place
\* in rank: those of the lowest such sorts, the digests above them being
\* known only once these have places.
RECURSIVE Missing(_, _)
Missing(node, rank) ==
    IF node.raised THEN {}
    ELSE With(UNION ({Missing(node.children[i], rank) : i \in 1..Len(node.children)}
                     \cup {IF node.value.kind = "element"
                            THEN Missing(node.value.node, rank) ELSE {}}),
              LAMBDA below :
            IF below # {} THEN below
            ELSE {d \in Compared([i \in 1..Len(node.children) |->
                                     node.children[i].content_identifier]) :
                     Place(rank, d) = 0})

\* The orders under which UIElement(element, max_depth) in the world w sorts
\* digests that all have places: w.rank with places for the digests it sorts
\* first.
RECURSIVE TreeRanks(_, _, _)
TreeRanks(w, element, max_depth) ==
    With(Missing(UIElement(w, 0, element, 0, 0, max_depth, None, RecursionLimit).node,
                 w.rank),
         LAMBDA missing :
            IF missing = {} THEN {w.rank}
            ELSE UNION {TreeRanks([w EXCEPT !.rank = r], element, max_depth) :
                          r \in Insertions(w.rank, missing)})

\* ------------------------------------------------------------- to_dict
\* f"{x:.2f}" of the float v/2
Format2f(v) ==
    LET m == IF v < 0 THEN -v ELSE v
    IN  (IF v < 0 THEN <<Lit("-")>> ELSE <<>>) \o Digits(m \div 2)
        \o <<Lit("."), Lit(IF m % 2 = 0 THEN "00" ELSE "50")>>
FormatPoint2f(p) == IF p = None THEN <<>> ELSE Format2f(p[1]) \o <<Lit(";")>> \o Format2f(p[2])
FormatSize0f(sz) == IF sz = None THEN <<>> ELSE Format0f(sz[1]) \o <<Lit(";")>> \o Format0f(sz[2])

\* UIElement.to_dict
RECURSIVE to_dict(_)
to_dict(node) ==
    [id |-> node.identifier,
     name |-> node.name,
     role |-> node.role,
     description |-> node.description,
     role_description |-> node.role_description,
     value |-> IF node.value.kind = "element"
               THEN [kind |-> "json", dict |-> to_dict(node.value.node)]
               ELSE node.value,
     absolute_position |-> FormatPoint2f(node.absolute_position),
     position |-> FormatPoint2f(node.position),
     size |-> FormatSize0f(node.size),
     enabled |-> node.enabled,
     bbox |-> node.bbox,
     visible_bbox |-> node.visible_bbox,
     children |-> [i \in 1..Len(node.children) |-> to_dict(node.children[i])]]

\* ------------------------------------------- MacOSAccessibilityHandler
\* The application an element belongs to when it is a top-level window.
OwnerPid(e) == IF e = 1 THEN 1 ELSE 2

\* The value of kAXWindowsAttribute of the application in the interface env.
AXWindows(env, pid) ==
    IF \E i \in DOMAIN env.running : env.running[i] = pid
    THEN Ascending({e \in Elems : env.parent[e] = 0 /\ OwnerPid(e) = pid}, 1)
    ELSE <<>>

\* get_application_windows(pid): the windows of the application, or [].
get_application_windows(w, clock, pid) ==
    Read(w, clock, AXWindows(w.pre, pid), AXWindows(w.post, pid))

\* The loop of get_all_windows over running_apps: for each application its
\* windows are read, then whether it is active.
RECURSIVE AppEntries(_, _, _)
AppEntries(w, clock, running_apps) ==
    IF running_apps = <<>> THEN [clock |-> clock, list |-> <<>>]
    ELSE LET pid == Head(running_apps)
         IN  With(get_application_windows(w, clock, pid), LAMBDA app_windows :
             With(Read(w, app_windows.clock, w.pre.frontmost = pid, w.post.frontmost = pid),
                  LAMBDA active :
             With(AppEntries(w, active.clock, Tail(running_apps)), LAMBDA rest :
                [clock |-> rest.clock,
                 list |-> <<[app_name |-> pid, pid |-> pid,
                             frontmost |-> active.out,
                             has_windows |-> Len(app_windows.out) > 0,
                             windows |-> app_windows.out]>> \o rest.list])))

\* get_all_windows(): one entry per running regular application.
get_all_windows(w, clock) ==
    With(Read(w, clock, w.pre.running, w.post.running), LAMBDA running_apps :
        AppEntries(w, running_apps.clock, running_apps.out))

\* The inner loop of get_accessibility_tree: a window whose construction
\* raises is skipped by the bare except.
RECURSIVE WindowTrees(_, _, _)
WindowTrees(w, clock, app_windows) ==
    IF app_windows = <<>> THEN [clock |-> clock, list |-> <<>>, missing |-> {}]
    ELSE With(UIElement(w, clock, Head(app_windows), 0, 0, None, None, RecursionLimit),
              LAMBDA window_element :
         With(WindowTrees(w, window_element.clock, Tail(app_windows)), LAMBDA rest :
            [clock |-> rest.clock,
             list |-> (IF window_element.node.raised THEN <<>>
                       ELSE <<to_dict(window_element.node)>>) \o rest.list,
             missing |-> Missing(window_element.node, w.rank) \cup rest.missing]))

\* The outer loop: applications without windows are left out.
RECURSIVE ProcessedWindows(_, _, _)
ProcessedWindows(w, clock, windows) ==
    IF windows = <<>> THEN [clock |-> clock, list |-> <<>>, missing |-> {}]
    ELSE LET app == Head(windows)
         IN  IF app.windows # <<>>
             THEN With(WindowTrees(w, clock, app.windows), LAMBDA window_trees :
                  With(ProcessedWindows(w, window_trees.clock, Tail(windows)), LAMBDA rest :
                     [clock |-> rest.clock,
                      list |-> <<[app_name |-> app.app_name, pid |-> app.pid,
                                  frontmost |-> app.frontmost,
                                  has_windows |-> app.has_windows,
                                  windows |-> window_trees.list]>> \o rest.list,
                      missing |-> window_trees.missing \cup rest.missing]))
             ELSE ProcessedWindows(w, clock, Tail(windows))

FrontmostApp(windows) ==
    IF \E i \in DOMAIN windows : windows[i].frontmost
    THEN windows[CHOOSE i \in DOMAIN windows :
                    /\ windows[i].frontmost
                    /\ \A j \in 1..(i - 1) : ~windows[j].frontmost]
    ELSE windows[1]

\* Mutant: the constructor is not guarded per window, so that one failing
\* window makes the whole call report a failure.
get_accessibility_tree_unguarded(w) ==
    With(get_all_windows(w, 0), LAMBDA windows :
    With(ProcessedWindows(w, windows.clock, windows.list), LAMBDA processed_windows :
    LET failed == \E i \in DOMAIN windows.list : \E k \in DOMAIN windows.list[i].windows :
                      UIElement(w, 0, windows.list[i].windows[k], 0, 0, None, None,
                                RecursionLimit).node.raised
    IN  [clock |-> processed_windows.clock,
         missing |-> processed_windows.missing,
         value |->
            IF windows.list = <<>>
            THEN [success |-> FALSE, error |-> "No visible windows found in the system",
                  frontmost_application |-> 0, windows |-> <<>>]
            ELSE IF failed
            THEN [success |-> FALSE, error |-> "exception",
                  frontmost_application |-> 0, windows |-> <<>>]
            ELSE IF ~\E i \in DOMAIN processed_windows.list :
                        processed_windows.list[i].windows # <<>>
            THEN [success |-> FALSE, error |-> "No accessible windows found",
                  frontmost_application |-> 0, windows |-> <<>>]
            ELSE [success |-> TRUE, error |-> "",
                  frontmost_application |-> FrontmostApp(windows.list).app_name,
                  windows |-> processed_windows.list]]))

\* MacOSAccessibilityHandler.get_accessibility_tree: the dict it returns,
\* the clock after the call and the digests it sorted that have no place in
\* w.rank.
get_accessibility_tree(w) ==
    With(get_all_windows(w, 0), LAMBDA windows :
    With(ProcessedWindows(w, windows.clock, windows.list), LAMBDA processed_windows :
        [clock |-> IF windows.list = <<>> THEN windows.clock ELSE processed_windows.clock,
         missing |-> processed_windows.missing,
         value |->
            IF windows.list = <<>>
            THEN [success |-> FALSE, error |-> "No visible windows found in the system",
                  frontmost_application |-> 0, windows |-> <<>>]
            ELSE IF ~\E i \in DOMAIN processed_windows.list :
                        processed_windows.list[i].windows # <<>>
            THEN [success |-> FALSE, error |-> "No accessible windows found",
                  frontmost_application |-> 0, windows |-> <<>>]
            ELSE [success |-> TRUE, error |-> "",
                  frontmost_application |-> FrontmostApp(windows.list).app_name,
                  windows |-> processed_windows.list]]))

\* The orders under which get_accessibility_tree() in the world w sorts
\* digests that all have places.
RECURSIVE SnapshotRanks(_)
SnapshotRanks(w) ==
    With(get_accessibility_tree(w).missing, LAMBDA missing :
            IF missing = {} THEN {w.rank}
            ELSE UNION {SnapshotRanks([w EXCEPT !.rank = r]) :
                          r \in Insertions(w.rank, missing)})

\* ---------------------------------------------------------- initial states
NotCalled == [called |-> FALSE]

InitParents ==
    {[e \in Elems |-> e - 1],
     [e \in Elems |-> IF e = 1 THEN 0 ELSE IF e <= 3 THEN 1 ELSE e - 2],
     [e \in Elems |-> IF e = NumElems THEN 0 ELSE e - 1]}

Init ==
    /\ ax_role = [e \in Elems |-> IF e = 1 THEN <<"AXWindow">>
                                  ELSE IF e = NumElems THEN None ELSE <<"AXButton">>]
    /\ ax_enabled = [e \in Elems |-> IF e = NumElems THEN None ELSE <<TRUE>>]
    /\ ax_position \in {[e \in Elems |-> IF e = 1 THEN <<2, 2>>
                                         ELSE IF e = 2 THEN p ELSE <<9, 4>>] :
                          p \in {<<9, 4>>, <<14, 2>>}}
    /\ ax_size = [e \in Elems |-> IF e = 1 THEN <<8, 6>> ELSE <<4, 2>>]
    /\ ax_value = [e \in Elems |-> IF e = 3 THEN [kind |-> "scalar", ref |-> 0]
                                   ELSE [kind |-> "none", ref |-> 0]]
    /\ ax_parent \in InitParents
    /\ ax_reversed = [e \in Elems |-> FALSE]
    /\ ax_raises = [e \in Elems |-> FALSE]
    /\ ax_listed = [e \in Elems |-> TRUE]
    /\ ax_visible = [e \in Elems |-> TRUE]
    /\ md5_rank = <<>>
    /\ running = <<1, 2>>
    /\ frontmost = 1
    /\ edits = 0
    /\ tree = NotCalled
    /\ previous = NotCalled
    /\ result = NotCalled

\* ------------------------------------------------ environment (the AX API)
\* The interfaces one change away from the present one, by the attribute
\* that changes.
RoleChanges(e) ==
    {[Env EXCEPT !.role[e] = <<r>>] : r \in {r \in Roles : ax_role[e] # <<r>>}}
EnabledChanges(e) ==
    {[Env EXCEPT !.enabled[e] = <<b>>] : b \in {b \in BOOLEAN : ax_enabled[e] # <<b>>}}
PositionChanges(e) ==
    {[Env EXCEPT !.position[e] = p] : p \in {p \in PosVals \cup {None} : ax_position[e] # p}}
SizeChanges(e) ==
    {[Env EXCEPT !.size[e] = sz] : sz \in {sz \in SizeVals \cup {None} : ax_size[e] # sz}}
ValueChanges(e) ==
    {[Env EXCEPT !.value[e] = v] :
        v \in {v \in {[kind |-> "none", ref |-> 0]}
                        \cup {[kind |-> "element", ref |-> r] : r \in Elems} :
                  ax_value[e] # v}}
\* An element moves under another element (one created earlier), or becomes
\* a top-level window.
ParentChanges(e) ==
    {[Env EXCEPT !.parent[e] = p] : p \in {p \in 0..(e - 1) : ax_parent[e] # p}}
OrderChanges(e) ==
    IF Len(ChildElems(Env, e)) >= 2
    THEN {[Env EXCEPT !.reversed[e] = ~ax_reversed[e]]} ELSE {}
\* The element becomes invalid: every query of it raises from now on.
ValidityChanges(e) ==
    IF ax_raises[e] THEN {} ELSE {[Env EXCEPT !.raises[e] = TRUE]}
\* kAXChildrenAttribute of an element that has children loses or gets its value.
ListedChanges(e) ==
    IF ChildElems(Env, e) # <<>>
    THEN {[Env EXCEPT !.listed[e] = ~ax_listed[e]]} ELSE {}
\* A child leaves or joins its parent's visible children.
VisibleChanges(e) ==
    IF ax_parent[e] # 0
    THEN {[Env EXCEPT !.visible[e] = ~ax_visible[e]]} ELSE {}
QuitChanges(pid) ==
    IF \E i \in DOMAIN running : running[i] = pid
    THEN {[Env EXCEPT !.running = SelectSeq(running, LAMBDA q : q # pid),
                      !.frontmost = IF frontmost = pid THEN 0 ELSE frontmost]}
    ELSE {}
ActiveChanges(pid) ==
    IF (\E i \in DOMAIN running : running[i] = pid) /\ frontmost # pid
    THEN {[Env EXCEPT !.frontmost = pid]} ELSE {}

AXChanges ==
    UNION {RoleChanges(e) \cup EnabledChanges(e) \cup PositionChanges(e)
           \cup SizeChanges(e) \cup ValueChanges(e) \cup ParentChanges(e)
           \cup OrderChanges(e) \cup ValidityChanges(e) \cup ListedChanges(e)
           \cup VisibleChanges(e) : e \in Elems}
AppChanges == UNION {QuitChanges(pid) \cup ActiveChanges(pid) : pid \in AppPids}

\* The interface becomes post.  What becomes of the trees a client holds is
\* said where they are used (Discard, Keep).
Change(post) ==
    /\ edits < MaxEdits
    /\ edits' = edits + 1
    /\ ax_role' = post.role
    /\ ax_enabled' = post.enabled
    /\ ax_position' = post.position
    /\ ax_size' = post.size
    /\ ax_value' = post.value
    /\ ax_parent' = post.parent
    /\ ax_reversed' = post.reversed
    /\ ax_raises' = post.raises
    /\ ax_listed' = post.listed
    /\ ax_visible' = post.visible
    /\ running' = post.running
    /\ frontmost' = post.frontmost

\* The interface changes while no call is under way.
Edit(post) == Change(post) /\ UNCHANGED md5_rank

SetRole(e) == \E post \in RoleChanges(e) : Edit(post)
SetEnabled(e) == \E post \in EnabledChanges(e) : Edit(post)
SetPosition(e) == \E post \in PositionChanges(e) : Edit(post)
SetSize(e) == \E post \in SizeChanges(e) : Edit(post)
SetValue(e) == \E post \in ValueChanges(e) : Edit(post)
Reparent(e) == \E post \in ParentChanges(e) : Edit(post)
ReverseChildren(e) == \E post \in OrderChanges(e) : Edit(post)
Invalidate(e) == \E post \in ValidityChanges(e) : Edit(post)
SetListed(e) == \E post \in ListedChanges(e) : Edit(post)
SetVisible(e) == \E post \in VisibleChanges(e) : Edit(post)
QuitApp(pid) == \E post \in QuitChanges(pid) : Edit(post)
ActivateApp(pid) == \E post \in ActiveChanges(pid) : Edit(post)

\* ------------------------------------------------------------ operations
\* The interface does not change during a call.
Quiet == UNCHANGED <<ax, apps, edits>>
Still(rank) == Stable(Env, rank)
\* The interface changes to post during a call, after the call made at of
\* the reads that the change affects.
During(post, at, rank) == [pre |-> Env, post |-> post, at |-> <<at>>, rank |-> rank]
\* The call as it goes when the change comes after it: its clock is the
\* number of its reads that the change affects.
Ahead(post) == [pre |-> Env, post |-> post, at |-> None, rank |-> md5_rank]

\* A caller constructs UIElement(element, max_depth=d); the interface may
\* change between two of its reads, and the digests the call sorts first
\* get their places.
NewUIElement(e, max_depth) ==
    /\ tree = NotCalled /\ result = NotCalled
    /\ \/ /\ \E rank \in TreeRanks(Still(md5_rank), e, max_depth) :
                /\ tree' = [called |-> TRUE, element |-> e, max_depth |-> max_depth,
                             torn |-> FALSE,
                             node |-> UIElement(Still(rank), 0, e, 0, 0, max_depth, None,
                                                RecursionLimit).node]
                /\ md5_rank' = rank
          /\ Quiet
       \/ /\ edits < MaxEdits
          /\ \E post \in AXChanges :
             \E at \in 1..(UIElement(Ahead(post), 0, e, 0, 0, max_depth, None,
                                      RecursionLimit).clock - 1) :
             \E rank \in TreeRanks(During(post, at, md5_rank), e, max_depth) :
                /\ tree' = [called |-> TRUE, element |-> e, max_depth |-> max_depth,
                             torn |-> TRUE,
                             node |-> UIElement(During(post, at, rank), 0, e, 0, 0,
                                                max_depth, None, RecursionLimit).node]
                /\ md5_rank' = rank
                /\ Change(post)
    /\ UNCHANGED <<previous, result>>

\* A caller awaits get_accessibility_tree(); the interface and the
\* applications may change between two of its reads.
GetAccessibilityTree ==
    /\ tree = NotCalled /\ result = NotCalled
    /\ \/ /\ \E rank \in SnapshotRanks(Still(md5_rank)) :
                /\ result' = [called |-> TRUE, torn |-> FALSE,
                               value |-> get_accessibility_tree(Still(rank)).value]
                /\ md5_rank' = rank
          /\ Quiet
       \/ /\ edits < MaxEdits
          /\ \E post \in AXChanges \cup AppChanges :
             \E at \in 1..(get_accessibility_tree(Ahead(post)).clock - 1) :
             \E rank \in SnapshotRanks(During(post, at, md5_rank)) :
                /\ result' = [called |-> TRUE, torn |-> TRUE,
                               value |-> get_accessibility_tree(During(post, at, rank)).value]
                /\ md5_rank' = rank
                /\ Change(post)
    /\ UNCHANGED <<tree, previous>>

\* A client that diffs snapshots builds the tree of a window again and keeps
\* the tree it had; it compares two trees and is done.
TakeSnapshot(e) ==
    /\ previous = NotCalled /\ result = NotCalled
    /\ IF tree = NotCalled THEN TRUE ELSE tree.element = e
    /\ previous' = tree
    /\ \/ /\ \E rank \in TreeRanks(Still(md5_rank), e, None) :
                /\ tree' = [called |-> TRUE, element |-> e, max_depth |-> None,
                             torn |-> FALSE,
                             node |-> UIElement(Still(rank), 0, e, 0, 0, None, None,
                                                RecursionLimit).node]
                /\ md5_rank' = rank
          /\ Quiet
       \/ /\ edits < MaxEdits
          /\ \E post \in AXChanges :
             \E at \in 1..(UIElement(Ahead(post), 0, e, 0, 0, None, None,
                                      RecursionLimit).clock - 1) :
             \E rank \in TreeRanks(During(post, at, md5_rank), e, None) :
                /\ tree' = [called |-> TRUE, element |-> e, max_depth |-> None,
                             torn |-> TRUE,
                             node |-> UIElement(During(post, at, rank), 0, e, 0, 0,
                                                None, None, RecursionLimit).node]
                /\ md5_rank' = rank
                /\ Change(post)
    /\ UNCHANGED result

\* The caller is done with what it was given.
Release ==
    /\ tree # NotCalled \/ result # NotCalled
    /\ tree' = NotCalled /\ result' = NotCalled
    /\ Quiet
    /\ UNCHANGED <<previous, md5_rank>>

\* A UIElement tree and a returned dict are transient: a caller holds them
\* until it returns, and they describe the interface as it was when they
\* were built.  Such a caller has dropped them when the interface changes.
Discard == tree' = NotCalled /\ result' = NotCalled /\ UNCHANGED previous
\* The diffing client keeps its trees while the interface changes.
Keep == UNCHANGED <<tree, previous, result>>

DepthArgs == {None} \cup {<<d>> : d \in 0..MaxDepthArg}

EnvAX ==
    \E e \in Elems :
        \/ SetRole(e)
        \/ SetEnabled(e)
        \/ SetPosition(e)
        \/ SetSize(e)
        \/ SetValue(e)
        \/ Reparent(e)
        \/ ReverseChildren(e)
        \/ Invalidate(e)
        \/ SetListed(e)
        \/ SetVisible(e)

EnvApps == \E pid \in AppPids : QuitApp(pid) \/ ActivateApp(pid)

Next ==
    \/ EnvAX /\ Discard
    \/ \E e \in Elems, d \in DepthArgs : ax_parent[e] = 0 /\ NewUIElement(e, d)
    \/ Release

Spec == Init /\ [][Next]_vars

SnapshotNext ==
    \/ EnvAX /\ Discard
    \/ EnvApps /\ Discard
    \/ GetAccessibilityTree
    \/ Release

SnapshotSpec == Init /\ [][SnapshotNext]_vars

DiffNext ==
    \/ EnvAX /\ Keep
    \/ \E e \in Elems : ax_parent[e] = 0 /\ TakeSnapshot(e)

DiffSpec == Init /\ [][DiffNext]_vars

\* =================================================================== claims
\* The nodes of a built tree, each with the chain of its ancestors along
\* children links (the root first).  With values, the UIElement stored in a
\* node's value (and every node below it) is listed too, as a root of its own.
RECURSIVE Entries(_, _, _)
Entries(node, anc, values) ==
    {[n |-> node, anc |-> anc]}
    \cup UNION {Entries(node.children[i], Append(anc, node), values) :
                  i \in 1..Len(node.children)}
    \cup (IF values /\ node.value.kind = "element"
          THEN Entries(node.value.node, <<>>, values) ELSE {})

Built == tree # NotCalled /\ ~tree.node.raised
\* Every node the constructor call made / the nodes of the tree it returned.
AllNodes == IF Built THEN Entries(tree.node, <<>>, TRUE) ELSE {}
TreeNodes == IF Built THEN Entries(tree.node, <<>>, FALSE) ELSE {}
Parent(en) == en.anc[Len(en.anc)]

Within(a, b) == a[1] >= b[1] /\ a[2] >= b[2] /\ a[3] <= b[3] /\ a[4] <= b[4]
\* The rectangles are strictly apart on some axis.
Apart(a, b) == a[1] > b[3] \/ a[2] > b[4] \/ a[3] < b[1] \/ a[4] < b[2]
\* The rectangle intersection is empty: apart, or touching along an edge or corner.
EmptyIntersection(a, b) ==
    Max(a[1], b[1]) >= Min(a[3], b[3]) \/ Max(a[2], b[2]) >= Min(a[4], b[4])
HasArea(a) == a[1] < a[3] /\ a[2] < a[4]

\* C1: a node's visible_bbox lies within its parent's visible_bbox when both
\* are present; under a parent whose visible_bbox is absent, a node that has
\* position and size has its own bbox as visible_bbox.
C1_VisibleWithinParent ==
    \A en \in AllNodes :
        en.anc # <<>> =>
            /\ (en.n.visible_bbox # None /\ Parent(en).visible_bbox # None)
                  => Within(en.n.visible_bbox, Parent(en).visible_bbox)
            /\ (Parent(en).visible_bbox = None /\ en.n.position # None /\ en.n.size # None)
                  => en.n.visible_bbox = en.n.bbox

\* A tree in which one node is really clipped by its parent and another node
\* sits under a parent that was clipped away.
C1_Witness ==
    /\ \E en \in AllNodes :
          /\ en.anc # <<>>
          /\ en.n.visible_bbox # None /\ Parent(en).visible_bbox # None
          /\ en.n.visible_bbox # en.n.bbox
    /\ \E en \in AllNodes :
          /\ en.anc # <<>>
          /\ Parent(en).visible_bbox = None
          /\ en.n.position # None /\ en.n.size # None

\* C2: a node's visible_bbox is clipped by every ancestor: absent when the
\* node's bbox is apart from the visible_bbox of any ancestor, and within
\* every ancestor's visible_bbox when present.
C2_ClippedByEveryAncestor ==
    \A en \in AllNodes :
        \A i \in 1..Len(en.anc) :
            (en.n.bbox # None /\ en.anc[i].visible_bbox # None) =>
                /\ Apart(en.n.bbox, en.anc[i].visible_bbox) => en.n.visible_bbox = None
                /\ en.n.visible_bbox # None
                      => Within(en.n.visible_bbox, en.anc[i].visible_bbox)

\* C3: against a supplied parent visible_bbox, an empty intersection gives
\* an absent visible_bbox, and a present visible_bbox has positive area.
C3_EmptyIntersectionIsAbsent ==
    \A en \in AllNodes :
        (en.anc # <<>> /\ en.n.bbox # None /\ Parent(en).visible_bbox # None) =>
            /\ EmptyIntersection(en.n.bbox, Parent(en).visible_bbox)
                  => en.n.visible_bbox = None
            /\ en.n.visible_bbox # None => HasArea(en.n.visible_bbox)

\* The nearest window on the chain root..node (the node itself included): the
\* last node of role AXWindow that has a position.  None when there is none.
Chain(en) == Append(en.anc, en.n)
NearestWindow(en) ==
    LET idx == {i \in 1..Len(Chain(en)) :
                   Chain(en)[i].role = "AXWindow" /\ Chain(en)[i].absolute_position # None}
    IN  IF idx = {} THEN None
        ELSE <<Chain(en)[CHOOSE i \in idx : \A j \in idx : j <= i]>>

\* C4 as stated: at or below a window, position is absolute_position minus
\* the window's absolute position, whatever the sign of the window's origin.
C4_RelativeToWindowOrigin ==
    \A en \in TreeNodes :
        (NearestWindow(en) # None /\ en.n.position # None) =>
            LET origin == NearestWindow(en)[1].absolute_position
            IN  en.n.position = <<en.n.absolute_position[1] - origin[1],
                                  en.n.absolute_position[2] - origin[2]>>

\* C4 amended: at or below a window, position is absolute_position minus
\* max(0, origin) componentwise, origin being the absolute position of the
\* nearest enclosing window: a negative origin coordinate shifts nothing.
C4_RelativeToClampedOrigin ==
    \A en \in TreeNodes :
        (NearestWindow(en) # None /\ en.n.position # None) =>
            LET origin == NearestWindow(en)[1].absolute_position
            IN  en.n.position = <<en.n.absolute_position[1] - Max(0, origin[1]),
                                  en.n.absolute_position[2] - Max(0, origin[2])>>

\* A node below a window whose origin has a negative and a positive coordinate.
C4_Witness ==
    \E en \in TreeNodes :
        /\ en.anc # <<>>
        /\ NearestWindow(en) # None /\ en.n.position # None
        /\ NearestWindow(en)[1].absolute_position[1] < 0
        /\ NearestWindow(en)[1].absolute_position[2] > 0
        /\ en.n.position[1] = en.n.absolute_position[1]
        /\ en.n.position[2] # en.n.absolute_position[2]

HasGeometry(n) == n.position # None /\ n.size # None
\* The children the present interface gives for e: the value of
\* kAXChildrenAttribute, else that of kAXVisibleChildrenAttribute, else none.
FoundChildren(e) ==
    IF AXChildren(Env, e) # None THEN AXChildren(Env, e)[1]
    ELSE IF AXVisibleChildren(Env, e) # None THEN AXVisibleChildren(Env, e)[1]
    ELSE <<>>

\* C5: a tree built with max_depth = d has no node deeper than d along
\* children links; a node at depth d has its own fields and no children,
\* whatever the API lists for it; above depth d every listed child is built
\* (compared with the interface when it did not change during the call).
C5_DepthLimit ==
    (Built /\ tree.max_depth # None) =>
        \A en \in TreeNodes :
            /\ Len(en.anc) <= tree.max_depth[1]
            /\ Len(en.anc) = tree.max_depth[1] => en.n.children = <<>>
            /\ en.n.max_depth = <<tree.max_depth[1] - Len(en.anc)>>
            /\ (~tree.torn /\ Len(en.anc) < tree.max_depth[1] /\ HasGeometry(en.n)) =>
                  [i \in 1..Len(en.n.children) |-> en.n.children[i].ax_element]
                     = FoundChildren(en.n.ax_element)
            /\ HasGeometry(en.n) =>
                  /\ en.n.identifier # <<>>
                  /\ en.n.bbox # None
                  /\ ~tree.torn => en.n.absolute_position = ax_position[en.n.ax_element]

\* max_depth = 2: a grandchild for which the API lists children is built
\* with its own fields and without them.
C5_Witness ==
    /\ Built /\ tree.max_depth = <<2>>
    /\ \E en \in TreeNodes :
          /\ Len(en.anc) = 2
          /\ ~tree.torn /\ FoundChildren(en.n.ax_element) # <<>>
          /\ en.n.identifier # <<>>
          /\ en.n.children = <<>>

\* C6: the UIElement stored in a node's value has no children and no nested
\* element value of its own.
C6_ValueNodeNotExpanded ==
    \A en \in AllNodes :
        en.n.value.kind = "element" =>
            /\ en.n.value.node.children = <<>>
            /\ en.n.value.node.value.kind # "element"

\* C7: nodes that have position and size and agree on position, size,
\* enabled and role have the same identifier.
C7_IdentifierOfFourFields ==
    \A x \in AllNodes, y \in AllNodes :
        (/\ HasGeometry(x.n) /\ HasGeometry(y.n)
         /\ x.n.position = y.n.position /\ x.n.size = y.n.size
         /\ x.n.enabled = y.n.enabled /\ x.n.role = y.n.role)
            => x.n.identifier = y.n.identifier

\* Two nodes of different elements that agree on the four fields and differ
\* in name, children and depth limit.
C7_Witness ==
    \E x \in AllNodes, y \in AllNodes :
        /\ HasGeometry(x.n) /\ HasGeometry(y.n)
        /\ x.n.position = y.n.position /\ x.n.size = y.n.size
        /\ x.n.enabled = y.n.enabled /\ x.n.role = y.n.role
        /\ x.n.ax_element # y.n.ax_element
        /\ x.n.name # y.n.name
        /\ x.n.children # y.n.children
        /\ x.n.max_depth # y.n.max_depth
        /\ x.n.identifier # <<>>

\* The two trees of the diffing client, when both calls returned a tree of
\* the same element.
BothBuilt ==
    /\ previous # NotCalled /\ tree # NotCalled
    /\ ~previous.node.raised /\ ~tree.node.raised
    /\ previous.element = tree.element
Before == IF BothBuilt THEN Entries(previous.node, <<>>, FALSE) ELSE {}
After == IF BothBuilt THEN Entries(tree.node, <<>>, FALSE) ELSE {}
Elements(chain) == [i \in 1..Len(chain) |-> chain[i].ax_element]
\* x and y are the same element at the same place of the two trees.
SameNode(x, y) == x.n.ax_element = y.n.ax_element /\ Elements(x.anc) = Elements(y.anc)

\* t is s with the entries at i and j exchanged.
IsExchange(s, t, i, j) ==
    /\ Len(s) = Len(t)
    /\ i \in 1..Len(s) /\ j \in 1..Len(s) /\ i < j
    /\ s[i] # s[j]
    /\ t[i] = s[j] /\ t[j] = s[i]
    /\ \A k \in 1..Len(s) : (k # i /\ k # j) => t[k] = s[k]

\* C8 as stated: when a node's children in the later snapshot are those of
\* the earlier one with two children of different content_identifier
\* exchanged, the hash of the children's identifiers in order differs, so
\* does the node's content_identifier, and the hash of the sorted content
\* does not.
C8_ExchangeOfDifferentContent ==
    \A x \in Before, y \in After :
        \A i \in 1..Len(x.n.children), j \in 1..Len(x.n.children) :
            (/\ SameNode(x, y)
             /\ IsExchange(x.n.children, y.n.children, i, j)
             /\ x.n.children[i].content_identifier # x.n.children[j].content_identifier)
                => /\ content_structure_hash(y.n.children)
                         # content_structure_hash(x.n.children)
                   /\ y.n.content_identifier # x.n.content_identifier
                   /\ content_hash(y.n.children, md5_rank) = content_hash(x.n.children, md5_rank)

\* C8 amended: exchanging two children whose identifiers differ and are both
\* non-empty changes the hash of the identifiers in order and the node's
\* content_identifier (the digest taken as collision-free); exchanging any
\* two children leaves the hash of the sorted content unchanged.
C8_ExchangeOfDifferentIdentifier ==
    \A x \in Before, y \in After :
        \A i \in 1..Len(x.n.children), j \in 1..Len(x.n.children) :
            (SameNode(x, y) /\ IsExchange(x.n.children, y.n.children, i, j))
                => /\ content_hash(y.n.children, md5_rank) = content_hash(x.n.children, md5_rank)
                   /\ (/\ x.n.children[i].identifier # x.n.children[j].identifier
                       /\ x.n.children[i].identifier # <<>>
                       /\ x.n.children[j].identifier # <<>>)
                         => /\ content_structure_hash(y.n.children)
                                  # content_structure_hash(x.n.children)
                            /\ y.n.content_identifier # x.n.content_identifier

\* Two snapshots between which two children that differ in identifier and in
\* content were exchanged, both with content of their own: the sorted half
\* orders two different digests.
C8_Witness ==
    \E x \in Before, y \in After :
        \E i \in 1..Len(x.n.children), j \in 1..Len(x.n.children) :
            /\ SameNode(x, y)
            /\ IsExchange(x.n.children, y.n.children, i, j)
            /\ x.n.children[i].identifier # x.n.children[j].identifier
            /\ x.n.children[i].identifier # <<>> /\ x.n.children[j].identifier # <<>>
            /\ x.n.children[i].content_identifier # x.n.children[j].content_identifier
            /\ x.n.children[i].content_identifier # <<>>
            /\ x.n.children[j].content_identifier # <<>>

\* What lies below a node: for each child, in order, its position, size,
\* enabled, role and what lies below it.
RECURSIVE Below(_)
Below(node) ==
    [i \in 1..Len(node.children) |->
        [position |-> node.children[i].position, size |-> node.children[i].size,
         enabled |-> node.children[i].enabled, role |-> node.children[i].role,
         below |-> Below(node.children[i])]]

\* C9: when two snapshots of a node differ below it (number of descendants,
\* order of children, a descendant's position, size, enabled or role), its
\* content_identifier differs, the digest taken as collision-free.
C9_ChangeBelowChangesContentIdentifier ==
    BothBuilt =>
        (Below(previous.node) # Below(tree.node)
            => previous.node.content_identifier # tree.node.content_identifier)

\* No value attribute refers to an element: a constructor can only fail
\* because the accessor raises.
NoElementValues == \A e \in Elems : ax_value[e].kind # "element"

\* What get_all_windows gives for the present interface.
AllWindows == get_all_windows(Still(md5_rank), 0).list

\* C10: a window whose own element can be queried appears in the result of
\* get_accessibility_tree even when the accessor raises for an element below
\* it (the interface did not change during the call).
C10_FailureBelowKeepsWindow ==
    (result # NotCalled /\ ~result.torn /\ NoElementValues) =>
        \A i \in DOMAIN AllWindows :
            LET app == AllWindows[i]
                valid == {k \in DOMAIN app.windows : ~ax_raises[app.windows[k]]}
            IN  valid # {} =>
                    /\ result.value.success
                    /\ \E k \in DOMAIN result.value.windows :
                          /\ result.value.windows[k].pid = app.pid
                          /\ Len(result.value.windows[k].windows) = Cardinality(valid)

\* The elements a constructor call for e queries next: the children and the
\* element value of e, when e can be queried and has position and size.
Queries(e) ==
    IF ax_raises[e] \/ ax_position[e] = None \/ ax_size[e] = None THEN {}
    ELSE {FoundChildren(e)[i] : i \in DOMAIN FoundChildren(e)}
         \cup (IF ax_value[e].kind = "element" THEN {ax_value[e].ref} ELSE {})
\* The elements queried within n further nested constructor calls from S.
RECURSIVE QueriedFrom(_, _)
QueriedFrom(S, n) ==
    IF n = 0 THEN S ELSE QueriedFrom(S \cup UNION {Queries(e) : e \in S}, n - 1)
\* The construction for e comes back to e.
OnCycle(e) == e \in QueriedFrom(Queries(e), NumElems)
\* UIElement(w) does not return: an element it queries raises, or the
\* construction comes back to an element it is constructing.
BuildFails(w) ==
    \E e \in QueriedFrom({w}, NumElems) : ax_raises[e] \/ OnCycle(e)
\* The windows of an application, in order, whose tree can be built.
Buildable(app_windows) == SelectSeq(app_windows, LAMBDA w : ~BuildFails(w))

\* C11: get_accessibility_tree returns a result in every case: a failure
\* carries an error text and a success the tree of some window.  When the
\* interface did not change during the call, it reports success exactly when
\* the tree of some window of some application could be built, and on
\* success every application that has windows is listed with the trees of
\* all its windows that could be built, whatever happened to the other
\* windows.
C11_StructuredResult ==
    result # NotCalled =>
        LET r == result.value
            withWindows == SelectSeq(AllWindows, LAMBDA a : a.windows # <<>>)
            anyBuilt == \E i \in DOMAIN withWindows : Buildable(withWindows[i].windows) # <<>>
        IN  /\ r.success \in BOOLEAN
            /\ ~r.success => r.error # ""
            /\ r.success => \E i \in DOMAIN r.windows : r.windows[i].windows # <<>>
            /\ ~result.torn =>
                  /\ r.success <=> anyBuilt
                  /\ r.success =>
                        /\ Len(r.windows) = Len(withWindows)
                        /\ \A i \in DOMAIN withWindows :
                              /\ r.windows[i].pid = withWindows[i].pid
                              /\ r.windows[i].windows =
                                    [k \in DOMAIN Buildable(withWindows[i].windows) |->
                                       to_dict(UIElement(Still(md5_rank), 0,
                                                         Buildable(withWindows[i].windows)[k],
                                                         0, 0, None, None,
                                                         RecursionLimit).node)]

\* A successful result in which the window of one application failed and the
\* window of another application is there.
C11_Witness ==
    /\ result # NotCalled /\ ~result.torn
    /\ result.value.success
    /\ \E i \in DOMAIN AllWindows :
          /\ AllWindows[i].windows # <<>>
          /\ Buildable(AllWindows[i].windows) = <<>>
    /\ \E k \in DOMAIN result.value.windows : result.value.windows[k].windows # <<>>

\* C12: when no element raises, a constructor call returns a tree, also when
\* a value attribute refers to the element itself, to an element above it or
\* to an element whose value refers back: the nesting of constructor calls
\* stays within the interpreter's limit.
C12_ValueReferencesTerminate ==
    (tree # NotCalled /\ \A e \in Elems : ~ax_raises[e]) => ~tree.node.raised

\* C13: a node without position or size has no bbox, no visible_bbox, no
\* children, the default value, description and role_description, and empty
\* identifier and content_identifier.
C13_NoGeometryIsDeadEnd ==
    \A en \in AllNodes :
        ~HasGeometry(en.n) =>
            /\ en.n.bbox = None /\ en.n.visible_bbox = None
            /\ en.n.children = <<>>
            /\ en.n.value = NoValue
            /\ en.n.description = <<<<>>>> /\ en.n.role_description = <<<<>>>>
            /\ en.n.identifier = <<>> /\ en.n.content_identifier = <<>>

\* A node below the root, without position, for which the API lists children
\* and whose depth limit would allow building them.
C13_Witness ==
    \E en \in TreeNodes :
        /\ en.anc # <<>>
        /\ en.n.position = None /\ en.n.size # None
        /\ ~tree.torn /\ FoundChildren(en.n.ax_element) # <<>>
        /\ Expands(en.n.max_depth)
        /\ en.n.children = <<>>

====
